---- MODULE Spec2Model ----
(***************************************************************************)
(* weathrs-mobile: the cron schedule codec of the scheduler screen         *)
(* (timeToCron, cronToTime, formatCron over CRON_PRESETS), the chart axis  *)
(* scaling of the chart components (getYAxisProps), the schedule part of   *)
(* the job form (JobFormModal), the jobs query of the scheduler screen     *)
(* with its create, update and delete mutations, and the store of the      *)
(* saved cities (citiesStore).                                             *)
(*                                                                         *)
(* JavaScript strings are TLA+ strings, read one character at a time with  *)
(* SubSeq; JavaScript numbers that may be NaN or Infinity are records      *)
(* [kind, val].                                                            *)
(***************************************************************************)
EXTENDS Integers, Sequences, FiniteSets, TLC

VARIABLES
    cron,       \* the cron text at hand (formData.cron / job.cron)
    origin,     \* how that text was produced: encoded, preset or typed
    decoded,    \* what cronToTime(cron) returned, NotRun before the call
    described,  \* what formatCron(cron) returned, NotRun before the call
    datasets,   \* the series handed to getYAxisProps
    site,       \* the component that calls getYAxisProps
    axis,       \* what getYAxisProps returned, NotRun before the call
    formData,       \* JobFormModal: the form's fields
    showCronPresets,\* JobFormModal: the preset list is open
    showCustomTime, \* JobFormModal: the time picker is open
    customHour,     \* JobFormModal: the hour the time picker shows
    customMinute,   \* JobFormModal: the minute the time picker shows
    server,         \* the backend's list of scheduler jobs
    jobsQuery,      \* the ['scheduler', 'jobs'] query of the query client
    mutations,      \* the mutations issued so far, by mutationId
    deleteAlert,    \* the job the open "Delete Job" alert asks about
    cities,         \* citiesStore: the saved cities
    selectedCityId, \* citiesStore: the id of the selected city, or null
    nextCityId,     \* the number of ids generateId has handed out, plus one
    isFormVisible,  \* SchedulerScreen: the job form is shown
    editingJob,     \* SchedulerScreen: the job the form edits, or null
    formAlert       \* the open alert of JobFormModal's handleSubmit

codecVars == <<cron, origin, decoded, described>>
axisVars == <<datasets, site, axis>>
formVars ==
    <<formData, showCronPresets, showCustomTime, customHour, customMinute>>
jobsVars == <<server, jobsQuery, mutations, deleteAlert>>
citiesVars == <<cities, selectedCityId, nextCityId>>
screenVars == <<isFormVisible, editingJob, formAlert>>
vars == <<codecVars, axisVars, formVars, jobsVars, citiesVars, screenVars>>

NotRun == [run |-> FALSE]
NoAlert == [alert |-> FALSE]

\* ------------------------------------------------------------------------
\* JavaScript numbers and strings

Number(v) == [kind |-> "int", val |-> v]
NaN == [kind |-> "NaN", val |-> 0]
Infinity == [kind |-> "Infinity", val |-> 0]

isNaN(x) == x.kind = "NaN"

\* x >= n, x > n, x === n and x - n for a number x and an integer n: every
\* comparison with NaN is false, NaN - n is NaN
NumGE(x, n) == x.kind = "Infinity" \/ (x.kind = "int" /\ x.val >= n)
NumGT(x, n) == x.kind = "Infinity" \/ (x.kind = "int" /\ x.val > n)
NumEq(x, n) == x.kind = "int" /\ x.val = n
NumMinus(x, n) == IF x.kind = "int" THEN Number(x.val - n) ELSE x

CharAt(s, i) == SubSeq(s, i, i)

DecimalDigits == "0123456789"

IsDigit(c) == \E d \in 1..10 : CharAt(DecimalDigits, d) = c

DigitValue(c) == CHOOSE d \in 0..9 : CharAt(DecimalDigits, d + 1) = c

RECURSIVE NatToString(_)
NatToString(n) ==
    IF n < 10 THEN CharAt(DecimalDigits, n + 1)
    ELSE NatToString(n \div 10) \o CharAt(DecimalDigits, (n % 10) + 1)

\* String(n) of an integer, as a template literal and toString() write it
IntToString(n) == IF n < 0 THEN "-" \o NatToString(-n) ELSE NatToString(n)

NumberToString(x) ==
    CASE x.kind = "NaN" -> "NaN"
      [] x.kind = "Infinity" -> "Infinity"
      [] OTHER -> IntToString(x.val)

\* s.includes(c) for a one-character c
includes(s, c) == \E i \in 1..Len(s) : CharAt(s, i) = c

RECURSIVE SplitFrom(_, _, _, _)
SplitFrom(s, sep, i, part) ==
    IF i > Len(s) THEN <<part>>
    ELSE IF CharAt(s, i) = sep THEN <<part>> \o SplitFrom(s, sep, i + 1, "")
    ELSE SplitFrom(s, sep, i + 1, part \o CharAt(s, i))

\* s.split(sep) for a one-character sep: every occurrence of sep ends a part,
\* so adjacent, leading and trailing separators give empty parts
split(s, sep) == SplitFrom(s, sep, 1, "")

RECURSIVE SkipSpaces(_, _)
SkipSpaces(s, i) ==
    IF i <= Len(s) /\ CharAt(s, i) = " " THEN SkipSpaces(s, i + 1) ELSE i

RECURSIVE ParseDigits(_, _, _)
ParseDigits(s, i, acc) ==
    IF i <= Len(s) /\ IsDigit(CharAt(s, i))
    THEN ParseDigits(s, i + 1, acc * 10 + DigitValue(CharAt(s, i)))
    ELSE acc

\* parseInt(s): leading blanks are skipped, a sign is read, then the longest
\* run of decimal digits; what follows the digits is ignored; NaN when there
\* is no digit to read
parseInt(s) ==
    LET start == SkipSpaces(s, 1)
        signed == start <= Len(s) /\ CharAt(s, start) \in {"-", "+"}
        first == IF signed THEN start + 1 ELSE start
    IN  IF first > Len(s) \/ ~IsDigit(CharAt(s, first)) THEN NaN
        ELSE IF signed /\ CharAt(s, start) = "-"
             THEN Number(0 - ParseDigits(s, first, 0))
             ELSE Number(ParseDigits(s, first, 0))

RECURSIVE Repeat(_, _)
Repeat(c, n) == IF n <= 0 THEN "" ELSE c \o Repeat(c, n - 1)

padStartNone(s, width, fill) == s

\* s.padStart(width, fill) for a one-character fill
padStart(s, width, fill) == Repeat(fill, width - Len(s)) \o s

\* ------------------------------------------------------------------------
\* app/scheduler.tsx: the cron codec

\* the table in the five-field format (min hour day month weekday)
CRON_PRESETS_FiveField == <<
    [label |-> "Custom Time...", value |-> "custom",
     description |-> "Set a specific time"],
    [label |-> "6:00 AM Daily", value |-> "0 6 * * *",
     description |-> "Every day at 6 AM"],
    [label |-> "7:00 AM Daily", value |-> "0 7 * * *",
     description |-> "Every day at 7 AM"],
    [label |-> "8:00 AM Daily", value |-> "0 8 * * *",
     description |-> "Every day at 8 AM"],
    [label |-> "6:00 PM Daily", value |-> "0 18 * * *",
     description |-> "Every day at 6 PM"],
    [label |-> "Every 6 hours", value |-> "0 */6 * * *",
     description |-> "At minute 0 past every 6th hour"],
    [label |-> "Every 12 hours", value |-> "0 */12 * * *",
     description |-> "At minute 0 past every 12th hour"] >>

CRON_PRESETS == <<
    [label |-> "Custom Time...", value |-> "custom",
     description |-> "Set a specific time"],
    [label |-> "6:00 AM Daily", value |-> "0 0 6 * * *",
     description |-> "Every day at 6 AM"],
    [label |-> "7:00 AM Daily", value |-> "0 0 7 * * *",
     description |-> "Every day at 7 AM"],
    [label |-> "8:00 AM Daily", value |-> "0 0 8 * * *",
     description |-> "Every day at 8 AM"],
    [label |-> "6:00 PM Daily", value |-> "0 0 18 * * *",
     description |-> "Every day at 6 PM"],
    [label |-> "Every 6 hours", value |-> "0 0 */6 * * *",
     description |-> "At minute 0 past every 6th hour"],
    [label |-> "Every 12 hours", value |-> "0 0 */12 * * *",
     description |-> "At minute 0 past every 12th hour"] >>

timeToCronSwapped(hour, minute) ==
    "0 " \o IntToString(hour) \o " " \o IntToString(minute) \o " * * *"

timeToCron(hour, minute) ==
    "0 " \o IntToString(minute) \o " " \o IntToString(hour) \o " * * *"

Null == [null |-> TRUE]

cronToTime(c) ==
    LET parts == split(c, " ")
    IN  IF Len(parts) # 6 THEN Null
        ELSE LET minute == parts[2]
                 hour == parts[3]
                 h == parseInt(hour)
                 m == parseInt(minute)
             IN  IF isNaN(h) \/ isNaN(m) \/ includes(hour, "*")
                       \/ includes(hour, "/")
                 THEN Null
                 ELSE [hour |-> h.val, minute |-> m.val]

\* CRON_PRESETS.find(p => p.value === c): the index of the first match, 0
\* when there is none
FindPreset(c) ==
    IF \E i \in 1..Len(CRON_PRESETS) : CRON_PRESETS[i].value = c
    THEN CHOOSE i \in 1..Len(CRON_PRESETS) :
            /\ CRON_PRESETS[i].value = c
            /\ \A j \in 1..(i - 1) : CRON_PRESETS[j].value # c
    ELSE 0

ampm(h) == IF NumGE(h, 12) THEN "PM" ELSE "AM"

h12NoMidnight(h) == IF NumGT(h, 12) THEN NumMinus(h, 12) ELSE h

h12(h) ==
    IF NumEq(h, 0) THEN Number(12)
    ELSE IF NumGT(h, 12) THEN NumMinus(h, 12)
    ELSE h

\* the part of formatCron after the preset lookup
FormatParts(c) ==
    LET parts == split(c, " ")
    IN  IF Len(parts) < 5 THEN c
        ELSE LET is6Field == Len(parts) = 6
                 minute == IF is6Field THEN parts[2] ELSE parts[1]
                 hour == IF is6Field THEN parts[3] ELSE parts[2]
                 dayOfMonth == IF is6Field THEN parts[4] ELSE parts[3]
                 month == IF is6Field THEN parts[5] ELSE parts[4]
                 dayOfWeek == IF is6Field THEN parts[6] ELSE parts[5]
             IN  IF /\ dayOfMonth = "*" /\ month = "*"
                    /\ dayOfWeek = "*"
                    /\ hour # "*" /\ minute # "*"
                 THEN LET h == parseInt(hour)
                          m == parseInt(minute)
                      IN  "Daily at " \o NumberToString(h12(h)) \o ":"
                              \o padStart(NumberToString(m), 2, "0")
                              \o " " \o ampm(h)
                 ELSE c

formatCronNoPresets(c) == FormatParts(c)

formatCron(c) ==
    IF FindPreset(c) # 0 THEN CRON_PRESETS[FindPreset(c)].label
    ELSE FormatParts(c)

\* ------------------------------------------------------------------------
\* app/scheduler.tsx: JobFormModal, the schedule part of the job form

\* the fields of the form that are followed here: the two texts that must
\* be filled in, the schedule and the switch
defaultFormData ==
    [name |-> "", city |-> "", cron |-> "0 0 7 * * *", enabled |-> TRUE]

\* a % b of JavaScript: the sign of the result is the sign of a
JsRem(a, b) == IF a >= 0 THEN a % b ELSE 0 - ((0 - a) % b)

\* ------------------------------------------------------------------------
\* src/components/WeatherCharts.tsx and HistoryCharts.tsx: getYAxisProps
\*
\* The samples are whole numbers (every call site of WeatherCharts and the
\* temperature chart of HistoryCharts pass Math.round(...) values), so every
\* quantity below is a whole number or a ratio of two: the ratios are kept
\* as numerator and denominator and compared by cross-multiplication, which
\* is what the double arithmetic of the code yields on such samples.

Min(a, b) == IF a <= b THEN a ELSE b
Max(a, b) == IF a >= b THEN a ELSE b

\* Math.ceil(a / b) for b > 0
CeilDiv(a, b) == 0 - ((0 - a) \div b)

RECURSIVE flat(_)
flat(ds) == IF Len(ds) = 0 THEN << >> ELSE Head(ds) \o flat(Tail(ds))

RECURSIVE MathMin(_)
MathMin(vs) ==
    IF Len(vs) = 1 THEN vs[1] ELSE Min(vs[1], MathMin(Tail(vs)))

RECURSIVE MathMax(_)
MathMax(vs) ==
    IF Len(vs) = 1 THEN vs[1] ELSE Max(vs[1], MathMax(Tail(vs)))

\* the padding fraction in hundredths (0.15, 0.1) and the least padding
PaddingPercent(where) == IF where = "weather" THEN 15 ELSE 10
MinPadding(where) == IF where = "weather" THEN 2 ELSE 1

ChartHeight == 180
HistoryShiftPerSection == 30
TargetSections == 5

Padding(minVal, maxVal, where) ==
    Max(CeilDiv((maxVal - minVal) * PaddingPercent(where), 100),
        MinPadding(where))

RECURSIVE Pow10(_)
Pow10(k) == IF k = 0 THEN 1 ELSE 10 * Pow10(k - 1)

\* Math.floor(Math.log10(num / den)) for num, den > 0
RECURSIVE FloorLog10(_, _)
FloorLog10(num, den) ==
    IF num >= 10 * den THEN FloorLog10(num, 10 * den) + 1
    ELSE IF num < den THEN FloorLog10(10 * num, den) - 1
    ELSE 0

\* niceStep for a range as <<numerator, denominator>>: rawStep = range / 5,
\* magnitude = 10^k as magNum / magDen, residual = rawStep / magnitude as
\* resNum / resDen, the multiplier 1, 2.5, 5 or 10 in halves,
\* niceStep = magnitude * multiplier
NiceStep(range) ==
    LET k == FloorLog10(range, TargetSections)
        magNum == IF k >= 0 THEN Pow10(k) ELSE 1
        magDen == IF k >= 0 THEN 1 ELSE Pow10(0 - k)
        resNum == range * magDen
        resDen == TargetSections * magNum
        halves == IF 2 * resNum <= 3 * resDen THEN 2
                  ELSE IF 2 * resNum <= 7 * resDen THEN 5
                  ELSE IF 2 * resNum <= 15 * resDen THEN 10
                  ELSE 20
    IN  <<magNum * halves, magDen * 2>>

StepValueTruncated(range) == NiceStep(range)[1] \div NiceStep(range)[2]

\* stepValue = Math.max(Math.ceil(niceStep), 1)
StepValue(range) ==
    Max(CeilDiv(NiceStep(range)[1], NiceStep(range)[2]), 1)

NoOfSectionsFloor(paddedMax, stepValue) == paddedMax \div stepValue

NoOfSections(paddedMax, stepValue) == CeilDiv(paddedMax, stepValue)

ComputedMaxUnrounded(paddedMax, stepValue) == paddedMax

\* computedMax = noOfSections * stepValue
ComputedMax(paddedMax, stepValue) ==
    NoOfSections(paddedMax, stepValue) * stepValue

NoOfSectionsBelowXAxis(paddedMin, stepValue) ==
    CeilDiv(IF paddedMin < 0 THEN 0 - paddedMin ELSE paddedMin, stepValue)

\* WeatherCharts: Math.ceil(below * (chartHeight / noOfSections)), Infinity
\* when noOfSections is 0; HistoryCharts: below * 30
LabelsVerticalShift(below, noOfSections, where) ==
    IF where = "history" THEN Number(below * HistoryShiftPerSection)
    ELSE IF noOfSections = 0 THEN Infinity
    ELSE IF noOfSections > 0
         THEN Number(CeilDiv(below * ChartHeight, noOfSections))
         ELSE Number(CeilDiv(0 - (below * ChartHeight), 0 - noOfSections))

DefaultProps == [maxValue |-> 0, noOfSections |-> 0, stepValue |-> 1]

\* the object returned for no values: {}
EmptyProps == [field \in {} |-> 0]

NoNegativeAxisStrict(paddedMin) == paddedMin > 0

\* if (paddedMin >= 0): only maxValue, noOfSections and stepValue
NoNegativeAxis(paddedMin) == paddedMin >= 0

getYAxisProps(ds, where) ==
    LET allValues == flat(ds)
    IN  IF Len(allValues) = 0 THEN EmptyProps
        ELSE
        LET minVal == MathMin(allValues)
            maxVal == MathMax(allValues)
            padding == Padding(minVal, maxVal, where)
            paddedMax == maxVal + padding
            paddedMin == minVal - padding
            range == paddedMax - Min(paddedMin, 0)
            stepValue == StepValue(range)
            noOfSections == NoOfSections(paddedMax, stepValue)
            computedMax == ComputedMax(paddedMax, stepValue)
            below == NoOfSectionsBelowXAxis(paddedMin, stepValue)
        IN  IF NoNegativeAxis(paddedMin)
            THEN [maxValue |-> computedMax, noOfSections |-> noOfSections,
                  stepValue |-> stepValue]
            ELSE [maxValue |-> computedMax, noOfSections |-> noOfSections,
                  stepValue |-> stepValue,
                  mostNegativeValue |-> below * stepValue,
                  noOfSectionsBelowXAxis |-> below,
                  xAxisLabelsVerticalShift |->
                      LabelsVerticalShift(below, noOfSections, where)]

\* ------------------------------------------------------------------------
\* The codec at work: a cron text is produced by the time picker
\* (timeToCron), picked from the preset list, or arrives as text (job.cron
\* from the backend); cronToTime and formatCron are then applied to it.

MaxFields == 7

HoursPerDay == 24
MinutesPerHour == 60
MinuteStep == 5

\* the text of the i-th field of a cron that arrives as text
FieldTokens(i) ==
    CASE i = 1 -> {"0", ""}
      [] i = 2 -> {"0", "30", "05", "7", "*", "*/15", "0/15"}
      [] i = 3 -> {"7", "0", "12", "18", "*", "*/6", "*/4", "abc", ""}
      [] OTHER -> {"*", "1", ""}

RECURSIVE Join(_, _)
Join(fields, sep) ==
    IF Len(fields) = 0 THEN ""
    ELSE IF Len(fields) = 1 THEN fields[1]
    ELSE fields[1] \o sep \o Join(Tail(fields), sep)

RECURSIVE FieldSeqs(_)
FieldSeqs(n) ==
    IF n = 0 THEN {<< >>}
    ELSE {Append(f, t) : f \in FieldSeqs(n - 1), t \in FieldTokens(n)}

NoOrigin == [kind |-> "none"]

\* no cron text yet; the chart state stays as it is throughout
CodecInit ==
    /\ cron = ""
    /\ origin = NoOrigin
    /\ decoded = NotRun
    /\ described = NotRun
    /\ datasets = << >>
    /\ site = "weather"
    /\ axis = NotRun
    /\ formData = defaultFormData
    /\ showCronPresets = FALSE
    /\ showCustomTime = FALSE
    /\ customHour = 7
    /\ customMinute = 0
    /\ server = << >>
    /\ jobsQuery = NotRun
    /\ mutations = << >>
    /\ deleteAlert = NoAlert
    /\ cities = << >>
    /\ selectedCityId = Null
    /\ nextCityId = 1
    /\ isFormVisible = FALSE
    /\ editingJob = Null
    /\ formAlert = NoAlert

\* handleCustomTimeConfirm: the time picker's hour and minute are encoded
EncodeTime ==
    /\ origin = NoOrigin
    /\ \E hour \in 0..(HoursPerDay - 1), minute \in 0..(MinutesPerHour - 1) :
          /\ cron' = timeToCron(hour, minute)
          /\ origin' = [kind |-> "encoded", hour |-> hour, minute |-> minute]
    /\ UNCHANGED <<decoded, described, axisVars, formVars, jobsVars, citiesVars, screenVars>>

\* handleCronPresetSelect / a job saved with a preset: a preset's value
PickPreset ==
    /\ origin = NoOrigin
    /\ \E i \in 1..Len(CRON_PRESETS) :
          /\ cron' = CRON_PRESETS[i].value
          /\ origin' = [kind |-> "preset", index |-> i]
    /\ UNCHANGED <<decoded, described, axisVars, formVars, jobsVars, citiesVars, screenVars>>

\* job.cron as the backend sends it: fields joined by single blanks; an
\* empty field stands for a leading, doubled or trailing blank
ReceiveText ==
    /\ origin = NoOrigin
    /\ \E n \in 0..MaxFields : \E fields \in FieldSeqs(n) :
          /\ cron' = Join(fields, " ")
          /\ origin' = [kind |-> "typed", fields |-> fields]
    /\ UNCHANGED <<decoded, described, axisVars, formVars, jobsVars, citiesVars, screenVars>>

Decode ==
    /\ origin # NoOrigin
    /\ decoded = NotRun
    /\ decoded' = cronToTime(cron)
    /\ UNCHANGED <<cron, origin, described, axisVars, formVars, jobsVars, citiesVars, screenVars>>

Describe ==
    /\ origin # NoOrigin
    /\ described = NotRun
    /\ described' = [text |-> formatCron(cron)]
    /\ UNCHANGED <<cron, origin, decoded, axisVars, formVars, jobsVars, citiesVars, screenVars>>

CodecNext ==
    \/ EncodeTime
    \/ PickPreset
    \/ ReceiveText
    \/ Decode
    \/ Describe

SpecCodec == CodecInit /\ [][CodecNext]_vars

\* ------------------------------------------------------------------------
\* The axis scaler at work: a chart component collects its series of
\* samples and calls getYAxisProps on them when it renders.

MaxSeries == 3
MaxPoints == 2
MaxValue == 12

\* the samples: every whole number up to MaxValue either side of zero, and
\* the values of the specification's examples
SpecExamples == {50, -10, 5}
SampleValues == (0 - MaxValue)..MaxValue \cup SpecExamples

RECURSIVE CountPoints(_)
CountPoints(ds) ==
    IF Len(ds) = 0 THEN 0 ELSE Len(Head(ds)) + CountPoints(Tail(ds))

\* no series yet; the codec state stays as it is throughout
AxisInit ==
    /\ datasets = << >>
    /\ site \in {"weather", "history"}
    /\ axis = NotRun
    /\ cron = ""
    /\ origin = NoOrigin
    /\ decoded = NotRun
    /\ described = NotRun
    /\ formData = defaultFormData
    /\ showCronPresets = FALSE
    /\ showCustomTime = FALSE
    /\ customHour = 7
    /\ customMinute = 0
    /\ server = << >>
    /\ jobsQuery = NotRun
    /\ mutations = << >>
    /\ deleteAlert = NoAlert
    /\ cities = << >>
    /\ selectedCityId = Null
    /\ nextCityId = 1
    /\ isFormVisible = FALSE
    /\ editingJob = Null
    /\ formAlert = NoAlert

\* one more series in the list handed to getYAxisProps
StartSeries ==
    /\ axis = NotRun
    /\ Len(datasets) < MaxSeries
    /\ datasets' = Append(datasets, << >>)
    /\ UNCHANGED <<site, axis, codecVars, formVars, jobsVars, citiesVars, screenVars>>

\* one more sample in the last series
AddPoint ==
    /\ axis = NotRun
    /\ Len(datasets) > 0
    /\ CountPoints(datasets) < MaxPoints
    /\ \E v \in SampleValues :
          datasets' = [datasets EXCEPT ![Len(datasets)] = Append(@, v)]
    /\ UNCHANGED <<site, axis, codecVars, formVars, jobsVars, citiesVars, screenVars>>

\* the chart renders: {...getYAxisProps(datasets, 180)}
Render ==
    /\ axis = NotRun
    /\ axis' = getYAxisProps(datasets, site)
    /\ UNCHANGED <<datasets, site, codecVars, formVars, jobsVars, citiesVars, screenVars>>

AxisNext ==
    \/ StartSeries
    \/ AddPoint
    \/ Render

SpecAxis == AxisInit /\ [][AxisNext]_vars

\* ------------------------------------------------------------------------
\* The job form at work: JobFormModal is mounted with the job being edited
\* or with the defaults, and the user opens the preset list, picks presets,
\* steps the time picker and confirms.

\* the cron of initialData || defaultFormData: the default, or the cron of
\* the job being edited
InitialCrons ==
    {defaultFormData.cron, "0 30 18 * * *", "0 55 23 * * *", "0 0 */6 * * *"}

\* useState(...) of JobFormModal; the codec and chart state stay as they
\* are throughout
FormInit ==
    /\ formData \in {[defaultFormData EXCEPT !.cron = c] : c \in InitialCrons}
    /\ showCronPresets = FALSE
    /\ showCustomTime = FALSE
    /\ customHour = 7
    /\ customMinute = 0
    /\ cron = ""
    /\ origin = NoOrigin
    /\ decoded = NotRun
    /\ described = NotRun
    /\ datasets = << >>
    /\ site = "weather"
    /\ axis = NotRun
    /\ server = << >>
    /\ jobsQuery = NotRun
    /\ mutations = << >>
    /\ deleteAlert = NoAlert
    /\ cities = << >>
    /\ selectedCityId = Null
    /\ nextCityId = 1
    /\ isFormVisible = FALSE
    /\ editingJob = Null
    /\ formAlert = NoAlert

\* the Schedule row is pressed: setShowCronPresets(!showCronPresets)
ToggleCronPresets ==
    /\ showCronPresets' = ~showCronPresets
    /\ UNCHANGED <<formData, showCustomTime, customHour, customMinute>>
    /\ UNCHANGED <<codecVars, axisVars, jobsVars, citiesVars, screenVars>>

\* every entry of the list, the sentinel too, becomes the form's cron
handleCronPresetSelectAny ==
    /\ showCronPresets
    /\ \E i \in 1..Len(CRON_PRESETS) :
          formData' = [formData EXCEPT !.cron = CRON_PRESETS[i].value]
    /\ showCronPresets' = FALSE
    /\ showCustomTime' = FALSE
    /\ UNCHANGED <<customHour, customMinute>>
    /\ UNCHANGED <<codecVars, axisVars, jobsVars, citiesVars, screenVars>>

\* an entry of the open preset list is pressed
handleCronPresetSelect ==
    /\ showCronPresets
    /\ \E i \in 1..Len(CRON_PRESETS) :
          LET value == CRON_PRESETS[i].value
              time == cronToTime(formData.cron)
          IN  IF value = "custom"
              THEN /\ IF time # Null
                      THEN /\ customHour' = time.hour
                           /\ customMinute' = time.minute
                      ELSE UNCHANGED <<customHour, customMinute>>
                   /\ showCustomTime' = TRUE
                   /\ showCronPresets' = FALSE
                   /\ UNCHANGED formData
              ELSE /\ formData' = [formData EXCEPT !.cron = value]
                   /\ showCronPresets' = FALSE
                   /\ showCustomTime' = FALSE
                   /\ UNCHANGED <<customHour, customMinute>>
    /\ UNCHANGED <<codecVars, axisVars, jobsVars, citiesVars, screenVars>>

\* the steppers of the open time picker
HourUp ==
    /\ showCustomTime
    /\ customHour' = JsRem(customHour + 1, HoursPerDay)
    /\ UNCHANGED <<formData, showCronPresets, showCustomTime, customMinute>>
    /\ UNCHANGED <<codecVars, axisVars, jobsVars, citiesVars, screenVars>>

HourDownNoWrap ==
    /\ showCustomTime
    /\ customHour' = JsRem(customHour - 1, HoursPerDay)
    /\ UNCHANGED <<formData, showCronPresets, showCustomTime, customMinute>>
    /\ UNCHANGED <<codecVars, axisVars, jobsVars, citiesVars, screenVars>>

HourDown ==
    /\ showCustomTime
    /\ customHour' = JsRem(customHour - 1 + HoursPerDay, HoursPerDay)
    /\ UNCHANGED <<formData, showCronPresets, showCustomTime, customMinute>>
    /\ UNCHANGED <<codecVars, axisVars, jobsVars, citiesVars, screenVars>>

MinuteUp ==
    /\ showCustomTime
    /\ customMinute' = JsRem(customMinute + MinuteStep, MinutesPerHour)
    /\ UNCHANGED <<formData, showCronPresets, showCustomTime, customHour>>
    /\ UNCHANGED <<codecVars, axisVars, jobsVars, citiesVars, screenVars>>

MinuteDown ==
    /\ showCustomTime
    /\ customMinute'
          = JsRem(customMinute - MinuteStep + MinutesPerHour, MinutesPerHour)
    /\ UNCHANGED <<formData, showCronPresets, showCustomTime, customHour>>
    /\ UNCHANGED <<codecVars, axisVars, jobsVars, citiesVars, screenVars>>

\* Confirm Time is pressed in the open time picker
handleCustomTimeConfirm ==
    /\ showCustomTime
    /\ formData' =
          [formData EXCEPT !.cron = timeToCron(customHour, customMinute)]
    /\ showCustomTime' = FALSE
    /\ UNCHANGED <<showCronPresets, customHour, customMinute>>
    /\ UNCHANGED <<codecVars, axisVars, jobsVars, citiesVars, screenVars>>

FormNext ==
    \/ ToggleCronPresets
    \/ handleCronPresetSelect
    \/ HourUp
    \/ HourDown
    \/ MinuteUp
    \/ MinuteDown
    \/ handleCustomTimeConfirm

SpecForm == FormInit /\ [][FormNext]_vars

\* ------------------------------------------------------------------------
\* app/scheduler.tsx: SchedulerScreen, the jobs query and its mutations
\*
\* A job is [id, name, city, cron, enabled]; the cached list is {jobs, count} or undefined.
\* The query is [data, isInvalidated, fetchStatus, reply]: reply is the list
\* the backend has answered a running fetch with, on its way to the client.
\* A mutation is [kind, id, data, phase, context]: phase "sent" while the
\* request is out, "ok" or "err" once the backend has answered, "settling"
\* between onSuccess / onError and onSettled, and Done afterwards; a create
\* is "refetching" while its onSuccess awaits the refetch it has started and
\* "refetched" once that fetch has ended.

Undefined == [undefined |-> TRUE]
Done == [phase |-> "done"]

\* SchedulerJob: the job the backend keeps for a CreateJobRequest
Job(id, data) ==
    [id |-> id, name |-> data.name, city |-> data.city, cron |-> data.cron,
     enabled |-> data.enabled]

\* JobListResponse of the backend for its list: { jobs, count }
JobListResponse(jobs) == [jobs |-> jobs, count |-> Len(jobs)]

HasJob(jobs, id) == \E i \in 1..Len(jobs) : jobs[i].id = id

\* jobs.map(job => job.id === id ? { ...job, ...data } : job)
MergeJob(jobs, id, data) ==
    [i \in 1..Len(jobs) |->
        IF jobs[i].id = id
        THEN [f \in DOMAIN jobs[i] |->
                 IF f \in DOMAIN data THEN data[f] ELSE jobs[i][f]]
        ELSE jobs[i]]

\* jobs.filter(job => job.id !== id)
RECURSIVE WithoutJob(_, _)
WithoutJob(jobs, id) ==
    IF Len(jobs) = 0 THEN << >>
    ELSE IF Head(jobs).id = id THEN WithoutJob(Tail(jobs), id)
    ELSE <<Head(jobs)>> \o WithoutJob(Tail(jobs), id)

\* queryClient.setQueryData: the data is written and the query is fresh
setQueryData(q, data) == [q EXCEPT !.data = data, !.isInvalidated = FALSE]

\* queryClient.cancelQueries: a running fetch is dropped, its answer ignored
cancelQueries(q) == [q EXCEPT !.fetchStatus = "idle", !.reply = Undefined]

\* jobsQuery.refetch(): a running fetch is replaced by a new one
refetch(q) == [q EXCEPT !.fetchStatus = "fetching", !.reply = Undefined]

invalidateNothing(q) == q

\* queryClient.invalidateQueries: the mounted query is marked and refetched
invalidateQueries(q) == refetch([q EXCEPT !.isInvalidated = TRUE])

\* a running fetch ends, by an answer, a failure or a cancellation: the
\* promise that createMutation.onSuccess awaits is settled
AwaitedFetchEnds(ms) ==
    [n \in 1..Len(ms) |->
        IF ms[n].phase = "refetching"
        THEN [ms[n] EXCEPT !.phase = "refetched"]
        ELSE ms[n]]

\* jobData of handleFormSubmit: the request built from the form's fields
JobRequest(data) ==
    [name |-> data.name, city |-> data.city, cron |-> data.cron,
     enabled |-> data.enabled]

\* updateMutation.onMutate, the optimistic list
OptimisticUpdate(previousJobs, id, data) ==
    [previousJobs EXCEPT !.jobs = MergeJob(previousJobs.jobs, id, data)]

\* deleteMutation.onMutate, the optimistic list
OptimisticDelete(previousJobs, id) ==
    [previousJobs EXCEPT !.jobs = WithoutJob(previousJobs.jobs, id),
                         !.count = previousJobs.count - 1]

RollbackJobsOnly(q, context) ==
    IF context.previousJobs # Undefined /\ q.data # Undefined
    THEN setQueryData(q, [q.data EXCEPT !.jobs = context.previousJobs.jobs])
    ELSE q

\* onError of updateMutation and deleteMutation: the rollback
Rollback(q, context) ==
    IF context.previousJobs # Undefined
    THEN setQueryData(q, context.previousJobs)
    ELSE q

\* ------------------------------------------------------------------------
\* The scheduler screen at work: the query loads the list, the user toggles,
\* deletes and creates jobs and pulls to refresh, and the backend answers.

MaxMutations == 2

\* the backend's list when the screen is mounted
InitialServer ==
    << Job(1, [name |-> "Home", city |-> "Paris", cron |-> "0 0 6 * * *",
               enabled |-> TRUE]),
       Job(2, [name |-> "Work", city |-> "Rome", cron |-> "0 30 18 * * *",
               enabled |-> FALSE]) >>

\* the id the backend gives the job that mutation n creates
NewJobId(n) == Len(InitialServer) + n

\* the jobs the screen shows cards for
ShownJobs == IF jobsQuery.data = Undefined THEN << >> ELSE jobsQuery.data.jobs

\* the screen is mounted: the query is fetching, nothing is cached; the
\* other parts of the program stay as they are throughout
JobsInit ==
    /\ server = InitialServer
    /\ jobsQuery = [data |-> Undefined, isInvalidated |-> FALSE,
                    fetchStatus |-> "fetching", reply |-> Undefined]
    /\ mutations = << >>
    /\ deleteAlert = NoAlert
    /\ cron = ""
    /\ origin = NoOrigin
    /\ decoded = NotRun
    /\ described = NotRun
    /\ datasets = << >>
    /\ site = "weather"
    /\ axis = NotRun
    /\ formData = defaultFormData
    /\ showCronPresets = FALSE
    /\ showCustomTime = FALSE
    /\ customHour = 7
    /\ customMinute = 0
    /\ cities = << >>
    /\ selectedCityId = Null
    /\ nextCityId = 1
    /\ isFormVisible = FALSE
    /\ editingJob = Null
    /\ formAlert = NoAlert

\* the backend answers the running fetch with its list
ServerAnswersFetch ==
    /\ jobsQuery.fetchStatus = "fetching"
    /\ jobsQuery.reply = Undefined
    /\ jobsQuery' = [jobsQuery EXCEPT !.reply = JobListResponse(server)]
    /\ UNCHANGED <<server, mutations, deleteAlert>>
    /\ UNCHANGED <<codecVars, axisVars, formVars, citiesVars, screenVars>>

\* the answer arrives: the list is cached
FetchSucceeds ==
    /\ jobsQuery.fetchStatus = "fetching"
    /\ jobsQuery.reply # Undefined
    /\ jobsQuery' = [data |-> jobsQuery.reply, isInvalidated |-> FALSE,
                     fetchStatus |-> "idle", reply |-> Undefined]
    /\ mutations' = AwaitedFetchEnds(mutations)
    /\ UNCHANGED <<server, deleteAlert>>
    /\ UNCHANGED <<codecVars, axisVars, formVars, citiesVars, screenVars>>

\* the fetch fails for good: the cached list stays
FetchFails ==
    /\ jobsQuery.fetchStatus = "fetching"
    /\ jobsQuery' = [jobsQuery EXCEPT !.fetchStatus = "idle",
                                      !.reply = Undefined]
    /\ mutations' = AwaitedFetchEnds(mutations)
    /\ UNCHANGED <<server, deleteAlert>>
    /\ UNCHANGED <<codecVars, axisVars, formVars, citiesVars, screenVars>>

\* pull to refresh, the list not being covered by the form
handleRefresh ==
    /\ deleteAlert = NoAlert
    /\ ~isFormVisible
    /\ jobsQuery' = refetch(jobsQuery)
    /\ mutations' = AwaitedFetchEnds(mutations)
    /\ UNCHANGED <<server, deleteAlert>>
    /\ UNCHANGED <<codecVars, axisVars, formVars, citiesVars, screenVars>>

\* createMutation.mutate(jobData): no onMutate
createMutate(jobData) ==
    /\ mutations' = Append(mutations,
          [kind |-> "create", id |-> NewJobId(Len(mutations) + 1),
           data |-> jobData, phase |-> "sent",
           context |-> [previousJobs |-> Undefined]])
    /\ UNCHANGED jobsQuery

\* updateMutation.mutate({ id, data }), with its onMutate
updateMutate(id, data) ==
    LET previousJobs == jobsQuery.data
    IN  /\ jobsQuery' =
              IF previousJobs # Undefined
              THEN setQueryData(cancelQueries(jobsQuery),
                       OptimisticUpdate(previousJobs, id, data))
              ELSE cancelQueries(jobsQuery)
        /\ mutations' = Append(AwaitedFetchEnds(mutations),
              [kind |-> "update", id |-> id, data |-> data,
               phase |-> "sent",
               context |-> [previousJobs |-> previousJobs]])

\* the form of a new job as it is saved when the cache is followed alone
NewJobForm == [defaultFormData EXCEPT !.name = "Trip", !.city = "Oslo"]

\* createMutation.mutate(jobData) for a new job
CreateMutate ==
    /\ deleteAlert = NoAlert
    /\ Len(mutations) < MaxMutations
    /\ createMutate(JobRequest(NewJobForm))
    /\ UNCHANGED <<server, deleteAlert>>
    /\ UNCHANGED <<codecVars, axisVars, formVars, citiesVars, screenVars>>

\* handleToggleJob(job, enabled): the switch of a job card is flipped,
\* updateMutation.mutate({ id, data: { enabled } })
handleToggleJob ==
    /\ deleteAlert = NoAlert
    /\ ~isFormVisible
    /\ Len(mutations) < MaxMutations
    /\ \E i \in 1..Len(ShownJobs) :
          updateMutate(ShownJobs[i].id, [enabled |-> ~ShownJobs[i].enabled])
    /\ UNCHANGED <<server, deleteAlert>>
    /\ UNCHANGED <<codecVars, axisVars, formVars, citiesVars, screenVars>>

\* the trash button of a job card: the alert opens
handleDeleteJob ==
    /\ deleteAlert = NoAlert
    /\ ~isFormVisible
    /\ Len(mutations) < MaxMutations
    /\ \E i \in 1..Len(ShownJobs) : deleteAlert' = [job |-> ShownJobs[i].id]
    /\ UNCHANGED <<server, jobsQuery, mutations>>
    /\ UNCHANGED <<codecVars, axisVars, formVars, citiesVars, screenVars>>

\* Cancel in the alert
AlertCancel ==
    /\ deleteAlert # NoAlert
    /\ deleteAlert' = NoAlert
    /\ UNCHANGED <<server, jobsQuery, mutations>>
    /\ UNCHANGED <<codecVars, axisVars, formVars, citiesVars, screenVars>>

\* Delete in the alert: deleteMutation.mutate(job.id), with its onMutate
DeleteMutate ==
    /\ deleteAlert # NoAlert
    /\ Len(mutations) < MaxMutations
    /\ LET id == deleteAlert.job
           previousJobs == jobsQuery.data
       IN  /\ jobsQuery' =
                 IF previousJobs # Undefined
                 THEN setQueryData(cancelQueries(jobsQuery),
                          OptimisticDelete(previousJobs, id))
                 ELSE cancelQueries(jobsQuery)
           /\ mutations' = Append(AwaitedFetchEnds(mutations),
                 [kind |-> "delete", id |-> id, data |-> [enabled |-> FALSE],
                  phase |-> "sent",
                  context |-> [previousJobs |-> previousJobs]])
    /\ deleteAlert' = NoAlert
    /\ UNCHANGED server
    /\ UNCHANGED <<codecVars, axisVars, formVars, citiesVars, screenVars>>

\* the backend carries a request out and answers
ServerAccepts ==
    \E n \in 1..Len(mutations) :
        LET m == mutations[n]
        IN  /\ m.phase = "sent"
            /\ m.kind = "create" \/ HasJob(server, m.id)
            /\ server' =
                 CASE m.kind = "create" ->
                          Append(server, Job(m.id, m.data))
                   [] m.kind = "update" -> MergeJob(server, m.id, m.data)
                   [] m.kind = "delete" -> WithoutJob(server, m.id)
            /\ mutations' = [mutations EXCEPT ![n].phase = "ok"]
            /\ UNCHANGED <<jobsQuery, deleteAlert>>
            /\ UNCHANGED <<codecVars, axisVars, formVars, citiesVars, screenVars>>

\* the backend refuses a request, or cannot be reached
ServerRefuses ==
    \E n \in 1..Len(mutations) :
        /\ mutations[n].phase = "sent"
        /\ mutations' = [mutations EXCEPT ![n].phase = "err"]
        /\ UNCHANGED <<server, jobsQuery, deleteAlert>>
        /\ UNCHANGED <<codecVars, axisVars, formVars, citiesVars, screenVars>>

\* createMutation.onSuccess, up to its first await: the queries are
\* invalidated, and a fetch that was running is replaced
CreateOnSuccess ==
    \E n \in 1..Len(mutations) :
        /\ mutations[n].phase = "ok"
        /\ mutations[n].kind = "create"
        /\ jobsQuery' = invalidateQueries(jobsQuery)
        /\ mutations' = [AwaitedFetchEnds(mutations) EXCEPT
                            ![n].phase = "refetching"]
        /\ UNCHANGED <<server, deleteAlert>>
        /\ UNCHANGED <<codecVars, axisVars, formVars, citiesVars, screenVars>>

\* createMutation.onSuccess, after the refetch: setIsFormVisible(false)
CreateOnSuccessResumes ==
    \E n \in 1..Len(mutations) :
        /\ mutations[n].phase = "refetched"
        /\ isFormVisible' = FALSE
        /\ mutations' = [mutations EXCEPT ![n] = Done]
        /\ UNCHANGED <<server, jobsQuery, deleteAlert, editingJob, formAlert>>
        /\ UNCHANGED <<codecVars, axisVars, formVars, citiesVars>>

\* createMutation.onError: an alert only
CreateOnError ==
    \E n \in 1..Len(mutations) :
        /\ mutations[n].phase = "err"
        /\ mutations[n].kind = "create"
        /\ mutations' = [mutations EXCEPT ![n] = Done]
        /\ UNCHANGED <<server, jobsQuery, deleteAlert>>
        /\ UNCHANGED <<codecVars, axisVars, formVars, citiesVars, screenVars>>

\* onSuccess of updateMutation and deleteMutation: the cache stays; that
\* of updateMutation does setIsFormVisible(false) and setEditingJob(null)
OnSuccess ==
    \E n \in 1..Len(mutations) :
        /\ mutations[n].phase = "ok"
        /\ mutations[n].kind \in {"update", "delete"}
        /\ mutations' = [mutations EXCEPT ![n].phase = "settling"]
        /\ IF mutations[n].kind = "update"
           THEN isFormVisible' = FALSE /\ editingJob' = Null
                /\ UNCHANGED formAlert
           ELSE UNCHANGED screenVars
        /\ UNCHANGED <<server, jobsQuery, deleteAlert>>
        /\ UNCHANGED <<codecVars, axisVars, formVars, citiesVars>>

\* onError of updateMutation and deleteMutation: the rollback
OnError ==
    \E n \in 1..Len(mutations) :
        /\ mutations[n].phase = "err"
        /\ mutations[n].kind \in {"update", "delete"}
        /\ jobsQuery' = Rollback(jobsQuery, mutations[n].context)
        /\ mutations' = [mutations EXCEPT ![n].phase = "settling"]
        /\ UNCHANGED <<server, deleteAlert>>
        /\ UNCHANGED <<codecVars, axisVars, formVars, citiesVars, screenVars>>

\* onSettled of updateMutation and deleteMutation: the queries are
\* invalidated
OnSettled ==
    \E n \in 1..Len(mutations) :
        /\ mutations[n].phase = "settling"
        /\ jobsQuery' = invalidateQueries(jobsQuery)
        /\ mutations' = [AwaitedFetchEnds(mutations) EXCEPT ![n] = Done]
        /\ UNCHANGED <<server, deleteAlert>>
        /\ UNCHANGED <<codecVars, axisVars, formVars, citiesVars, screenVars>>

JobsNext ==
    \/ ServerAnswersFetch
    \/ FetchSucceeds
    \/ FetchFails
    \/ handleRefresh
    \/ CreateMutate
    \/ handleToggleJob
    \/ handleDeleteJob
    \/ AlertCancel
    \/ DeleteMutate
    \/ ServerAccepts
    \/ ServerRefuses
    \/ CreateOnSuccess
    \/ CreateOnSuccessResumes
    \/ CreateOnError
    \/ OnSuccess
    \/ OnError
    \/ OnSettled

SpecJobs == JobsInit /\ [][JobsNext]_vars

\* ------------------------------------------------------------------------
\* src/stores/citiesStore.ts: the saved cities and the selected one
\*
\* A city is [id, name, displayName]; the store's state is taken and given
\* back as [cities, selectedCityId].

UpperCaseLetters == "ABCDEFGHIJKLMNOPQRSTUVWXYZ"
LowerCaseLetters == "abcdefghijklmnopqrstuvwxyz"

LowerChar(c) ==
    IF \E i \in 1..Len(UpperCaseLetters) : CharAt(UpperCaseLetters, i) = c
    THEN CharAt(LowerCaseLetters,
                CHOOSE i \in 1..Len(UpperCaseLetters) :
                    CharAt(UpperCaseLetters, i) = c)
    ELSE c

\* s.toLowerCase()
RECURSIVE toLowerCase(_)
toLowerCase(s) ==
    IF Len(s) = 0 THEN ""
    ELSE LowerChar(CharAt(s, 1)) \o toLowerCase(SubSeq(s, 2, Len(s)))

\* s.trim(): the blanks before the first and after the last other character
\* are dropped
RECURSIVE trim(_)
trim(s) ==
    IF Len(s) = 0 THEN ""
    ELSE IF CharAt(s, 1) = " " THEN trim(SubSeq(s, 2, Len(s)))
    ELSE IF CharAt(s, Len(s)) = " " THEN trim(SubSeq(s, 1, Len(s) - 1))
    ELSE s

\* the id generateId returns on its n-th call
CityId(n) == [city |-> n]

\* an optional string that is there: displayName?: string
Given(text) == [text |-> text]

\* displayName?.trim() || undefined
TrimmedOrUndefined(displayName) ==
    IF displayName = Undefined THEN Undefined
    ELSE IF trim(displayName.text) = "" THEN Undefined
    ELSE Given(trim(displayName.text))

\* state.cities.some(c => c.name.toLowerCase() === name.trim().toLowerCase())
CityExists(cs, name) ==
    \E i \in 1..Len(cs) :
        toLowerCase(cs[i].name) = toLowerCase(trim(name))

RECURSIVE WithoutCity(_, _)
WithoutCity(cs, id) ==
    IF Len(cs) = 0 THEN << >>
    ELSE IF Head(cs).id = id THEN WithoutCity(Tail(cs), id)
    ELSE <<Head(cs)>> \o WithoutCity(Tail(cs), id)

addCityAnyCase(state, name, displayName, id) ==
    IF \E i \in 1..Len(state.cities) : state.cities[i].name = trim(name)
    THEN state
    ELSE [cities |-> Append(state.cities,
                        [id |-> id, name |-> trim(name),
                         displayName |-> TrimmedOrUndefined(displayName)]),
          selectedCityId |->
              IF state.selectedCityId # Null THEN state.selectedCityId
              ELSE id]

\* addCity(name, displayName), id being what generateId returned
addCity(state, name, displayName, id) ==
    IF CityExists(state.cities, name) THEN state
    ELSE [cities |-> Append(state.cities,
                        [id |-> id, name |-> trim(name),
                         displayName |-> TrimmedOrUndefined(displayName)]),
          selectedCityId |->
              IF state.selectedCityId # Null THEN state.selectedCityId
              ELSE id]

removeCityKeepSelection(state, id) ==
    [cities |-> WithoutCity(state.cities, id),
     selectedCityId |-> state.selectedCityId]

\* removeCity(id)
removeCity(state, id) ==
    LET updatedCities == WithoutCity(state.cities, id)
    IN  [cities |-> updatedCities,
         selectedCityId |->
             IF state.selectedCityId = id
             THEN IF Len(updatedCities) > 0 THEN updatedCities[1].id
                  ELSE Null
             ELSE state.selectedCityId]

\* selectCity(id)
selectCity(state, id) == [state EXCEPT !.selectedCityId = id]

\* updateCityDisplayName(id, displayName)
updateCityDisplayName(state, id, displayName) ==
    [state EXCEPT !.cities =
        [i \in 1..Len(state.cities) |->
            IF state.cities[i].id = id
            THEN [state.cities[i] EXCEPT
                     !.displayName = TrimmedOrUndefined(displayName)]
            ELSE state.cities[i]]]

\* getSelectedCity()
getSelectedCity(state) ==
    IF \E i \in 1..Len(state.cities) :
           state.cities[i].id = state.selectedCityId
    THEN state.cities[CHOOSE i \in 1..Len(state.cities) :
                          state.cities[i].id = state.selectedCityId]
    ELSE Null

\* ------------------------------------------------------------------------
\* The cities store at work: the settings screen adds, removes, selects and
\* renames cities.

MaxCityIds == 3

\* what is typed or found as a city name, and given as a display name
CityNames == {"Paris", " paris ", "Rome", "ROME "}
DisplayNames == {Undefined, Given("My Location"), Given(" ")}

StoreState == [cities |-> cities, selectedCityId |-> selectedCityId]

\* the empty store; the other parts of the program stay as they are
\* throughout
CitiesInit ==
    /\ cities = << >>
    /\ selectedCityId = Null
    /\ nextCityId = 1
    /\ isFormVisible = FALSE
    /\ editingJob = Null
    /\ formAlert = NoAlert
    /\ cron = ""
    /\ origin = NoOrigin
    /\ decoded = NotRun
    /\ described = NotRun
    /\ datasets = << >>
    /\ site = "weather"
    /\ axis = NotRun
    /\ formData = defaultFormData
    /\ showCronPresets = FALSE
    /\ showCustomTime = FALSE
    /\ customHour = 7
    /\ customMinute = 0
    /\ server = << >>
    /\ jobsQuery = NotRun
    /\ mutations = << >>
    /\ deleteAlert = NoAlert

AddCity ==
    /\ nextCityId <= MaxCityIds
    /\ \E name \in CityNames, displayName \in DisplayNames :
          LET state == addCity(StoreState, name, displayName,
                               CityId(nextCityId))
          IN  /\ cities' = state.cities
              /\ selectedCityId' = state.selectedCityId
    /\ nextCityId' = nextCityId + 1
    /\ UNCHANGED <<codecVars, axisVars, formVars, jobsVars, screenVars>>

\* removeCity with an id that generateId has handed out, saved or not
RemoveCity ==
    /\ \E n \in 1..(nextCityId - 1) :
          LET state == removeCity(StoreState, CityId(n))
          IN  /\ cities' = state.cities
              /\ selectedCityId' = state.selectedCityId
    /\ UNCHANGED nextCityId
    /\ UNCHANGED <<codecVars, axisVars, formVars, jobsVars, screenVars>>

\* selectCity with an id that generateId has handed out, saved or not (the
\* handlers of the settings screen select after an await)
SelectCity ==
    /\ \E n \in 1..(nextCityId - 1) :
          LET state == selectCity(StoreState, CityId(n))
          IN  /\ cities' = state.cities
              /\ selectedCityId' = state.selectedCityId
    /\ UNCHANGED nextCityId
    /\ UNCHANGED <<codecVars, axisVars, formVars, jobsVars, screenVars>>

UpdateCityDisplayName ==
    /\ \E n \in 1..(nextCityId - 1), displayName \in DisplayNames \ {Undefined} :
          LET state == updateCityDisplayName(StoreState, CityId(n),
                                             displayName)
          IN  /\ cities' = state.cities
              /\ selectedCityId' = state.selectedCityId
    /\ UNCHANGED nextCityId
    /\ UNCHANGED <<codecVars, axisVars, formVars, jobsVars, screenVars>>

CitiesNext ==
    \/ AddCity
    \/ RemoveCity
    \/ SelectCity
    \/ UpdateCityDisplayName

SpecCities == CitiesInit /\ [][CitiesNext]_vars

\* ------------------------------------------------------------------------
\* app/scheduler.tsx: the job form on the scheduler screen. SchedulerScreen
\* renders JobFormModal once and for all, shown or hidden by isFormVisible;
\* the form's fields are the state of that one component.

\* getInitialFormData(): the fields of the job being edited, or undefined
getInitialFormData(job) ==
    IF job = Null THEN Undefined
    ELSE [name |-> job.name, city |-> job.city, cron |-> job.cron,
          enabled |-> job.enabled]

\* useState(initialData || defaultFormData): the state of the first render
useStateFormData(initialData) ==
    IF initialData = Undefined THEN defaultFormData ELSE initialData

\* isSubmitting: createMutation.isPending || updateMutation.isPending, a
\* mutation being pending until its last callback has returned; taken here
\* for every create and update, the latest or not
isSubmitting ==
    \E n \in 1..Len(mutations) :
        /\ mutations[n] # Done
        /\ mutations[n].kind \in {"create", "update"}

\* handleFormSubmit(data): the edited job is updated, or a job is created
handleFormSubmit(data) ==
    IF editingJob # Null
    THEN updateMutate(editingJob.id, JobRequest(data))
    ELSE createMutate(JobRequest(data))

\* ------------------------------------------------------------------------
\* The job form at work on the screen: the list is loaded, the user flips
\* switches of job cards, opens the form for a new job or for a job of the
\* list, types a name and a city, saves or cancels, and the backend
\* answers. The schedule is left as the form holds it.

\* the requests a run of the screen issues
MaxRequests == 1

\* what the user types into the name and the city
Texts == {" ", "Trip"}

\* the screen is mounted: the form is hidden and holds the defaults, the
\* query is fetching; the other parts of the program stay as they are
ScreenInit ==
    /\ isFormVisible = FALSE
    /\ editingJob = Null
    /\ formAlert = NoAlert
    /\ formData = useStateFormData(getInitialFormData(Null))
    /\ showCronPresets = FALSE
    /\ showCustomTime = FALSE
    /\ customHour = 7
    /\ customMinute = 0
    /\ server = InitialServer
    /\ jobsQuery = [data |-> Undefined, isInvalidated |-> FALSE,
                    fetchStatus |-> "fetching", reply |-> Undefined]
    /\ mutations = << >>
    /\ deleteAlert = NoAlert
    /\ cron = ""
    /\ origin = NoOrigin
    /\ decoded = NotRun
    /\ described = NotRun
    /\ datasets = << >>
    /\ site = "weather"
    /\ axis = NotRun
    /\ cities = << >>
    /\ selectedCityId = Null
    /\ nextCityId = 1

\* the + button: the form is shown for a new job
handleAddJob ==
    /\ ~isFormVisible
    /\ editingJob' = Null
    /\ isFormVisible' = TRUE
    /\ UNCHANGED formAlert
    /\ UNCHANGED <<codecVars, axisVars, formVars, jobsVars, citiesVars>>

\* the pencil of a job card: the form is shown for that job
handleEditJob ==
    /\ ~isFormVisible
    /\ \E i \in 1..Len(ShownJobs) : editingJob' = ShownJobs[i]
    /\ isFormVisible' = TRUE
    /\ UNCHANGED formAlert
    /\ UNCHANGED <<codecVars, axisVars, formVars, jobsVars, citiesVars>>

\* Cancel in the form
handleFormClose ==
    /\ isFormVisible
    /\ formAlert = NoAlert
    /\ isFormVisible' = FALSE
    /\ editingJob' = Null
    /\ UNCHANGED formAlert
    /\ UNCHANGED <<codecVars, axisVars, formVars, jobsVars, citiesVars>>

\* the Job Name input: setFormData(prev => ({ ...prev, name: text }))
onChangeName ==
    /\ isFormVisible
    /\ formAlert = NoAlert
    /\ \E text \in Texts : formData' = [formData EXCEPT !.name = text]
    /\ UNCHANGED <<showCronPresets, showCustomTime, customHour, customMinute>>
    /\ UNCHANGED <<codecVars, axisVars, jobsVars, citiesVars, screenVars>>

\* the City input: setFormData(prev => ({ ...prev, city: text }))
onChangeCity ==
    /\ isFormVisible
    /\ formAlert = NoAlert
    /\ \E text \in Texts : formData' = [formData EXCEPT !.city = text]
    /\ UNCHANGED <<showCronPresets, showCustomTime, customHour, customMinute>>
    /\ UNCHANGED <<codecVars, axisVars, jobsVars, citiesVars, screenVars>>

handleSubmitUnchecked ==
    /\ isFormVisible
    /\ formAlert = NoAlert
    /\ ~isSubmitting
    /\ Len(mutations) < MaxRequests
    /\ handleFormSubmit(formData)
    /\ UNCHANGED <<server, deleteAlert>>
    /\ UNCHANGED <<codecVars, axisVars, formVars, citiesVars, screenVars>>

\* Save in the form, enabled while nothing is being submitted: handleSubmit
\* raises an alert for a blank name or city, and calls onSubmit otherwise
handleSubmit ==
    /\ isFormVisible
    /\ formAlert = NoAlert
    /\ ~isSubmitting
    /\ IF trim(formData.name) = ""
       THEN /\ formAlert' = [message |-> "Please enter a job name"]
            /\ UNCHANGED <<jobsVars, isFormVisible, editingJob>>
       ELSE IF trim(formData.city) = ""
       THEN /\ formAlert' = [message |-> "Please enter a city"]
            /\ UNCHANGED <<jobsVars, isFormVisible, editingJob>>
       ELSE /\ Len(mutations) < MaxRequests
            /\ handleFormSubmit(formData)
            /\ UNCHANGED <<server, deleteAlert, screenVars>>
    /\ UNCHANGED <<codecVars, axisVars, formVars, citiesVars>>

\* OK in the alert
FormAlertOK ==
    /\ formAlert # NoAlert
    /\ formAlert' = NoAlert
    /\ UNCHANGED <<isFormVisible, editingJob>>
    /\ UNCHANGED <<codecVars, axisVars, formVars, jobsVars, citiesVars>>

ScreenNext ==
    \/ ServerAnswersFetch
    \/ FetchSucceeds
    \/ handleAddJob
    \/ handleEditJob
    \/ handleFormClose
    \/ onChangeName
    \/ onChangeCity
    \/ handleSubmit
    \/ FormAlertOK
    \/ (Len(mutations) < MaxRequests /\ handleToggleJob)
    \/ ServerAccepts
    \/ ServerRefuses
    \/ CreateOnSuccess
    \/ CreateOnSuccessResumes
    \/ CreateOnError
    \/ OnSuccess
    \/ OnError
    \/ OnSettled

SpecScreen == ScreenInit /\ [][ScreenNext]_vars

\* ------------------------------------------------------------------------
\* Terms of the statements about the codec

PresetValues == {CRON_PRESETS[i].value : i \in 1..Len(CRON_PRESETS)}

RECURSIVE WordsFrom(_, _, _)
WordsFrom(s, i, word) ==
    LET done == IF word = "" THEN << >> ELSE <<word>>
    IN  IF i > Len(s) THEN done
        ELSE IF CharAt(s, i) = " " THEN done \o WordsFrom(s, i + 1, "")
        ELSE WordsFrom(s, i + 1, word \o CharAt(s, i))

\* the whitespace-separated fields of a text
Words(s) == WordsFrom(s, 1, "")

\* a text whose fields are separated by single blanks, with no blank before
\* the first or after the last: the form every producer of the program writes
Canonical(s) == Join(Words(s), " ") = s

\* a plain integer literal: decimal digits only
IsLiteral(t) == Len(t) > 0 /\ \A i \in 1..Len(t) : IsDigit(CharAt(t, i))

RECURSIVE LiteralValueTo(_, _)
LiteralValueTo(t, n) ==
    IF n = 0 THEN 0
    ELSE 10 * LiteralValueTo(t, n - 1) + DigitValue(CharAt(t, n))

LiteralValue(t) == LiteralValueTo(t, Len(t))

AllStars(w, from) == w[from] = "*" /\ w[from + 1] = "*" /\ w[from + 2] = "*"

\* six fields, literal minute and hour, every day of every month
SixFieldDaily(s) ==
    LET w == Words(s)
    IN  /\ Canonical(s) /\ Len(w) = 6
        /\ IsLiteral(w[2]) /\ IsLiteral(w[3]) /\ AllStars(w, 4)

\* the same schedule in either the six-field or the five-field format
DailyLiteral(s) ==
    LET w == Words(s)
    IN  \/ Len(w) = 6 /\ IsLiteral(w[2]) /\ IsLiteral(w[3]) /\ AllStars(w, 4)
        \/ Len(w) = 5 /\ IsLiteral(w[1]) /\ IsLiteral(w[2]) /\ AllStars(w, 3)

HourTexts == <<"1", "2", "3", "4", "5", "6", "7", "8", "9", "10", "11", "12">>

\* "Daily at H:MM AM|PM" as the specification words it
DailyLabel(h, m) ==
    "Daily at "
        \o HourTexts[IF h = 0 \/ h = 12 THEN 12 ELSE IF h < 12 THEN h ELSE h - 12]
        \o ":" \o CharAt(DecimalDigits, (m \div 10) + 1)
        \o CharAt(DecimalDigits, (m % 10) + 1)
        \o " " \o (IF h < 12 THEN "AM" ELSE "PM")

Encoded(h, m) == origin = [kind |-> "encoded", hour |-> h, minute |-> m]

\* ------------------------------------------------------------------------
\* Statements about the codec, checked under SpecCodec

\* C1: round trip: for every hour in 0..23 and minute in 0..59,
\* cronToTime(timeToCron(hour, minute)) is exactly {hour, minute}
C1_RoundTrip ==
    (origin.kind = "encoded" /\ decoded # NotRun)
        => decoded = [hour |-> origin.hour, minute |-> origin.minute]

C1_Witness ==
    /\ Encoded(23, 59)
    /\ cron = "0 59 23 * * *"
    /\ decoded = [hour |-> 23, minute |-> 59]

\* C4: the preset lookup comes first in formatCron: a cron text equal to a
\* preset's value is described by that preset's label
C4_PresetPrecedence ==
    described # NotRun =>
        \A i \in 1..Len(CRON_PRESETS) :
            cron = CRON_PRESETS[i].value => described.text = CRON_PRESETS[i].label

C4_Witness ==
    /\ cron = "0 0 6 * * *"
    /\ described # NotRun
    /\ described.text = "6:00 AM Daily"

C6_Examples ==
    described # NotRun =>
        /\ Encoded(7, 0) => described.text = "7:00 AM Daily"
        /\ Encoded(18, 30) => described.text = "Daily at 6:30 PM"
        /\ Encoded(0, 0) => described.text = "Daily at 12:00 AM"

C6_Witness ==
    /\ Encoded(7, 0)
    /\ described # NotRun
    /\ described.text = "7:00 AM Daily"

\* C6 as stated: formatCron(timeToCron(7, 0)) is "Daily at 7:00 AM",
\* formatCron(timeToCron(18, 30)) is "Daily at 6:30 PM" and
\* formatCron(timeToCron(0, 0)) is "Daily at 12:00 AM"
C6_Original ==
    described # NotRun =>
        /\ Encoded(7, 0) => described.text = "Daily at 7:00 AM"
        /\ Encoded(18, 30) => described.text = "Daily at 6:30 PM"
        /\ Encoded(0, 0) => described.text = "Daily at 12:00 AM"

\* C7: formatCron returns its input unchanged for every text that is neither
\* a preset value nor a daily schedule with literal hour and minute
C7_RawFallback ==
    (/\ described # NotRun
     /\ cron \notin PresetValues
     /\ ~DailyLiteral(cron))
        => described.text = cron

\* C8: cronToTime returns null for every six-field cron whose minute or hour
\* field contains "*" or "/" or is no integer
C8_NonLiteralIsNull ==
    (/\ decoded # NotRun
     /\ Canonical(cron) /\ Len(Words(cron)) = 6
     /\ \E k \in {2, 3} :
            \/ includes(Words(cron)[k], "*")
            \/ includes(Words(cron)[k], "/")
            \/ ~IsLiteral(Words(cron)[k]))
        => decoded = Null

\* C9: cronToTime returns a time only for the daily shape
\* "0 <minute> <hour> * * *", and null for every other text
C9_OnlyDailyDecodes ==
    (/\ decoded # NotRun
     /\ ~(SixFieldDaily(cron) /\ Words(cron)[1] = "0"))
        => decoded = Null

\* C10: cronToTime returns null for every text that does not consist of
\* exactly six whitespace-separated fields
C10_SixFieldsOnly ==
    (decoded # NotRun /\ Len(Words(cron)) # 6) => decoded = Null

\* what the statement says of each preset, in the order of the table: its
\* label and, for a daily preset, the time its label names
PresetsStated == <<
    [label |-> "Custom Time...", time |-> Null],
    [label |-> "6:00 AM Daily", time |-> [hour |-> 6, minute |-> 0]],
    [label |-> "7:00 AM Daily", time |-> [hour |-> 7, minute |-> 0]],
    [label |-> "8:00 AM Daily", time |-> [hour |-> 8, minute |-> 0]],
    [label |-> "6:00 PM Daily", time |-> [hour |-> 18, minute |-> 0]],
    [label |-> "Every 6 hours", time |-> Null],
    [label |-> "Every 12 hours", time |-> Null] >>

\* C17: the preset table is fixed and ordered: the sentinel first, then the
\* daily times 6:00 AM, 7:00 AM, 8:00 AM and 6:00 PM, then every 6 and every
\* 12 hours; every value but the sentinel has six fields; the value of a
\* daily preset is timeToCron of the time its label names and cronToTime
\* returns that time; cronToTime returns null for the sentinel and for both
\* step presets, whose hour field is */N
C17_PresetTable ==
    /\ Len(CRON_PRESETS) = Len(PresetsStated)
    /\ CRON_PRESETS[1].value = "custom"
    /\ \A i \in 1..Len(CRON_PRESETS) :
          /\ CRON_PRESETS[i].label = PresetsStated[i].label
          /\ i > 1 => Len(Words(CRON_PRESETS[i].value)) = 6
          /\ PresetsStated[i].time # Null =>
                CRON_PRESETS[i].value
                    = timeToCron(PresetsStated[i].time.hour,
                                 PresetsStated[i].time.minute)
          /\ (i > 1 /\ PresetsStated[i].time = Null) =>
                SubSeq(Words(CRON_PRESETS[i].value)[3], 1, 2) = "*/"
    /\ (origin.kind = "preset" /\ decoded # NotRun) =>
          decoded = PresetsStated[origin.index].time

C17_Witness ==
    /\ origin = [kind |-> "preset", index |-> 5]
    /\ cron = "0 0 18 * * *"
    /\ decoded = [hour |-> 18, minute |-> 0]

\* ------------------------------------------------------------------------
\* Statements about the axis scaler, checked under SpecAxis

Rendered == axis # NotRun /\ Len(flat(datasets)) > 0

HasNegativeAxis == "mostNegativeValue" \in DOMAIN axis

\* C2: for every non-empty series maxValue = noOfSections * stepValue, and
\* when the negative-axis fields are returned,
\* mostNegativeValue = noOfSectionsBelowXAxis * stepValue
C2_SectionsTimesStep ==
    Rendered =>
        /\ axis.maxValue = axis.noOfSections * axis.stepValue
        /\ HasNegativeAxis =>
              axis.mostNegativeValue
                  = axis.noOfSectionsBelowXAxis * axis.stepValue

C2_Witness ==
    /\ Rendered
    /\ datasets = << <<-10, 5>> >>
    /\ HasNegativeAxis
    /\ axis.maxValue = axis.noOfSections * axis.stepValue
    /\ axis.maxValue > 0

\* C3: no sample is clipped: maxValue >= max(values) + K and, when the
\* negative-axis fields are returned, -mostNegativeValue <= min(values) - K,
\* K being the least padding of the call site (2 in WeatherCharts, 1 in
\* HistoryCharts); the single sample 50 gives stepValue >= 1, maxValue >= 50
C3_NoClipping ==
    Rendered =>
        /\ axis.maxValue
              >= MathMax(flat(datasets)) + (IF site = "weather" THEN 2 ELSE 1)
        /\ HasNegativeAxis =>
              0 - axis.mostNegativeValue
                  <= MathMin(flat(datasets))
                        - (IF site = "weather" THEN 2 ELSE 1)
        /\ flat(datasets) = <<50>> =>
              axis.stepValue >= 1 /\ axis.maxValue >= 50

C3_Witness ==
    /\ Rendered
    /\ flat(datasets) = <<50>>
    /\ site = "weather"
    /\ axis.maxValue >= 52

\* the padded bounds and the range of the samples of a non-empty list of
\* series, as the statements below speak of them
PaddingOf(ds, where) ==
    Padding(MathMin(flat(ds)), MathMax(flat(ds)), where)

PaddedMinOf(ds, where) == MathMin(flat(ds)) - PaddingOf(ds, where)

PaddedMaxOf(ds, where) == MathMax(flat(ds)) + PaddingOf(ds, where)

RangeOf(ds, where) ==
    PaddedMaxOf(ds, where) - Min(PaddedMinOf(ds, where), 0)

\* C11: every non-empty series, an all-zero or single-point one included,
\* gives a stepValue that is a whole number >= 1: the step computed for the
\* range of the samples is >= 1, and so is the stepValue returned
C11_StepAtLeastOne ==
    Len(flat(datasets)) > 0 =>
        /\ StepValue(RangeOf(datasets, site)) \in Nat \ {0}
        /\ Rendered => axis.stepValue \in Nat \ {0}

C11_Witness ==
    /\ Rendered
    /\ datasets = << <<0>> >>
    /\ site = "history"
    /\ axis.stepValue = 1

\* C12: the negative-axis fields (mostNegativeValue, noOfSectionsBelowXAxis,
\* xAxisLabelsVerticalShift) are returned exactly when
\* paddedMin = min - padding < 0; when paddedMin >= 0 the result has only
\* maxValue, noOfSections and stepValue; [-10, 5] yields both kinds of field
C12_NegativeFieldsIffPaddedMinNegative ==
    Rendered =>
        /\ PaddedMinOf(datasets, site) < 0 =>
              DOMAIN axis = {"maxValue", "noOfSections", "stepValue",
                             "mostNegativeValue", "noOfSectionsBelowXAxis",
                             "xAxisLabelsVerticalShift"}
        /\ PaddedMinOf(datasets, site) >= 0 =>
              DOMAIN axis = {"maxValue", "noOfSections", "stepValue"}

C12_Witness ==
    /\ Rendered
    /\ datasets = << <<-10, 5>> >>
    /\ PaddedMinOf(datasets, site) < 0
    /\ axis.maxValue > 0
    /\ axis.mostNegativeValue > 0
    /\ axis.noOfSectionsBelowXAxis > 0

\* C13: for an empty list of series, or series that are all empty,
\* getYAxisProps returns the empty scale: an object with no axis fields
C13_EmptyInputEmptyScale ==
    (axis # NotRun /\ CountPoints(datasets) = 0) => DOMAIN axis = {}

C13_Witness ==
    /\ axis # NotRun
    /\ datasets = << << >>, << >> >>
    /\ axis = EmptyProps

\* 1, 2, 2.5, 5 or 10 times a power of ten, as a whole number
RECURSIVE IsNice(_)
IsNice(n) ==
    \/ n \in {1, 2, 5, 25}
    \/ n >= 10 /\ n % 10 = 0 /\ IsNice(n \div 10)

\* C14: the stepValue of a non-empty series is a "nice" number: 1, 2, 2.5,
\* 5 or 10 times a power of ten, that is one of 1, 2, 5, 10, 20, 25, 50,
\* 100, ...
C14_NiceStep == Rendered => IsNice(axis.stepValue)

\* C23: for every non-empty series, a series of negative values included,
\* noOfSections is a whole number >= 1 and maxValue > 0, so that the section
\* height chartHeight / noOfSections is finite and positive and the label
\* shift, when returned, is a finite number >= 0
C23_AtLeastOneSection ==
    Rendered =>
        /\ axis.noOfSections >= 1
        /\ axis.maxValue > 0
        /\ HasNegativeAxis =>
              /\ axis.xAxisLabelsVerticalShift.kind = "int"
              /\ axis.xAxisLabelsVerticalShift.val >= 0

\* C24: sections below the X axis appear only when the series dips below
\* zero: a series whose values are all >= 0 gets neither
\* noOfSectionsBelowXAxis nor mostNegativeValue
C24_BelowAxisOnlyWhenNegative ==
    (Rendered /\ \A i \in 1..Len(flat(datasets)) : flat(datasets)[i] >= 0) =>
        /\ "noOfSectionsBelowXAxis" \notin DOMAIN axis
        /\ "mostNegativeValue" \notin DOMAIN axis

\* ------------------------------------------------------------------------
\* Statements about the job form, checked under SpecForm

\* C15: the "Custom Time" sentinel never becomes a schedule: in a form that
\* starts with a cron other than the sentinel, after any sequence of preset
\* selections, stepper presses and Confirm presses the form's cron is never
\* 'custom', so the sentinel is neither described nor submitted
C15_SentinelNeverCron == formData.cron # "custom"

\* the sentinel was selected and the time confirmed
C15_Witness ==
    /\ formData.cron = "0 5 7 * * *"
    /\ ~showCustomTime
    /\ ~showCronPresets

\* the time picker shows a time of day
TimeInRange ==
    /\ customHour \in 0..23
    /\ customMinute \in 0..59

\* a step that closes the time picker with no preset chosen: Confirm
ConfirmStep ==
    /\ showCustomTime
    /\ ~showCustomTime'
    /\ showCronPresets' = showCronPresets

\* C16: the counters of the time picker wrap around: from the default 07:00
\* or a decoded time of day, after any sequence of hour +1/-1 and minute
\* +5/-5 presses the hour stays in 0..23 and the minute in 0..59, and the
\* cron that Confirm writes is timeToCron of the time shown and decodes back
\* to it
C16_CountersWrap ==
    /\ []TimeInRange
    /\ [][ConfirmStep =>
            /\ formData'.cron = timeToCron(customHour, customMinute)
            /\ cronToTime(formData'.cron)
                  = [hour |-> customHour', minute |-> customMinute']]_vars

\* 22:50, confirmed: reached from 07:00 or 23:55 by presses only
C16_Witness ==
    /\ customHour = 22
    /\ customMinute = 50
    /\ ~showCustomTime
    /\ formData.cron = "0 50 22 * * *"

\* ------------------------------------------------------------------------
\* Statements about the jobs cache, checked under SpecJobs

\* the step is the onError of mutation n, an update or a delete
OnErrorStep(n) ==
    /\ mutations[n].phase = "err"
    /\ mutations[n].kind \in {"update", "delete"}
    /\ mutations'[n].phase = "settling"

\* the step issues mutation n, an update or a delete
OnMutateStep(n) ==
    /\ Len(mutations) = n - 1
    /\ Len(mutations') = n
    /\ mutations'[n].kind \in {"update", "delete"}

\* C18: rollback on error: when an update or delete request fails, the
\* cached list (jobs and count) after onError equals the list the mutation
\* saved, which is the cached list from just before its optimistic change
C18_RollbackRestores ==
    [][\A n \in 1..MaxMutations :
          /\ (n <= Len(mutations) /\ OnErrorStep(n)
                  /\ mutations[n].context.previousJobs # Undefined) =>
                /\ jobsQuery'.data.jobs
                      = mutations[n].context.previousJobs.jobs
                /\ jobsQuery'.data.count
                      = mutations[n].context.previousJobs.count
          /\ OnMutateStep(n) =>
                mutations'[n].context.previousJobs = jobsQuery.data]_vars

\* a delete has failed and its onError has put the two jobs back
C18_Witness ==
    \E n \in 1..Len(mutations) :
        /\ mutations[n].phase = "settling"
        /\ mutations[n].kind = "delete"
        /\ mutations[n].context.previousJobs # Undefined
        /\ jobsQuery.data = mutations[n].context.previousJobs
        /\ jobsQuery.data.count = 2
        /\ Len(jobsQuery.data.jobs) = 2

\* the optimistic change of mutation m shows in a cached list
EffectShows(m, data) ==
    /\ data # Undefined
    /\ \/ m.kind = "delete" /\ ~HasJob(data.jobs, m.id)
       \/ /\ m.kind = "update"
          /\ \E i \in 1..Len(data.jobs) :
                /\ data.jobs[i].id = m.id
                /\ \A f \in DOMAIN m.data : data.jobs[i][f] = m.data[f]

\* C19: with two mutations in flight, the rollback of the one that fails
\* restores its own optimistic change only: the optimistic change of the
\* other, whose request is still out or has succeeded, stays in the cache
C19_RollbackKeepsOthers ==
    [][\A n, k \in 1..MaxMutations :
          (/\ n <= Len(mutations)
           /\ k <= Len(mutations)
           /\ n # k
           /\ OnErrorStep(n)
           /\ mutations[k].phase \in {"sent", "ok"}
           /\ EffectShows(mutations[k], jobsQuery.data))
              => EffectShows(mutations[k], jobsQuery'.data)]_vars

\* no mutation is in flight
AllSettled == \A n \in 1..Len(mutations) : mutations[n] = Done

\* the step ends mutation n: onSettled of an update or a delete, or
\* onSuccess of a create
SettlingStep(n) ==
    /\ \/ mutations[n].phase = "settling"
       \/ mutations[n].phase = "ok" /\ mutations[n].kind = "create"
    /\ mutations'[n] = Done

\* C20: every update or delete, failed or not, and every successful create
\* ends with the invalidation of the scheduler queries, which refetches the
\* list; so once no mutation is in flight and the refetch has succeeded,
\* the cached list equals the backend's list
C20_InvalidatedThenInSync ==
    /\ [][\A n \in 1..MaxMutations :
            (n <= Len(mutations) /\ SettlingStep(n)) =>
                /\ jobsQuery'.isInvalidated
                /\ jobsQuery'.fetchStatus = "fetching"
                /\ jobsQuery'.reply = Undefined]_vars
    /\ []((/\ AllSettled
           /\ jobsQuery.fetchStatus = "idle"
           /\ ~jobsQuery.isInvalidated
           /\ jobsQuery.data # Undefined)
             => jobsQuery.data = JobListResponse(server))

\* a toggle and a create have settled and the list was fetched again
C20_Witness ==
    /\ Len(mutations) = 2
    /\ AllSettled
    /\ jobsQuery.fetchStatus = "idle"
    /\ ~jobsQuery.isInvalidated
    /\ Len(server) = 3
    /\ ~server[1].enabled
    /\ jobsQuery.data = JobListResponse(server)

\* C27: in the cached list count is the number of jobs, after any sequence
\* of optimistic updates, optimistic deletes and rollbacks, every list that
\* comes from the backend having that property
C27_CountIsNumberOfJobs ==
    jobsQuery.data # Undefined =>
        jobsQuery.data.count = Len(jobsQuery.data.jobs)

\* ------------------------------------------------------------------------
\* Statements about the cities store, checked under SpecCities

CityIds == {cities[i].id : i \in 1..Len(cities)}

\* selectedCityId is null exactly when no city is saved, and is otherwise
\* the id of a saved city
SelectionOK ==
    /\ selectedCityId = Null <=> Len(cities) = 0
    /\ selectedCityId # Null => selectedCityId \in CityIds

\* the step is a selectCity with an id that is not saved
SelectsUnsaved ==
    /\ cities' = cities
    /\ selectedCityId' # selectedCityId
    /\ selectedCityId' \notin CityIds

\* C25: after any sequence of addCity, removeCity and selectCity with the id
\* of a saved city, selectedCityId is null exactly when no city is saved and
\* is otherwise the id of a saved city; the first city added is selected,
\* removing the selected city selects the first that remains, and removing
\* another city leaves the selection as it is
C25_SelectionInvariant ==
    /\ SelectionOK
    /\ [][(SelectionOK /\ ~SelectsUnsaved) =>
            /\ SelectionOK'
            /\ (Len(cities) = 0 /\ Len(cities') = 1) =>
                  selectedCityId' = cities'[1].id
            /\ Len(cities') < Len(cities) =>
                  selectedCityId' =
                      IF \E i \in 1..Len(cities') :
                             cities'[i].id = selectedCityId
                      THEN selectedCityId
                      ELSE IF Len(cities') > 0 THEN cities'[1].id
                      ELSE Null]_vars

\* two cities were added and the first, selected one removed
C25_Witness ==
    /\ Len(cities) = 1
    /\ cities[1].id = CityId(2)
    /\ selectedCityId = CityId(2)
    /\ getSelectedCity(StoreState) = cities[1]

\* a name with its case and the blanks around it set aside
SameName(a, b) == toLowerCase(trim(a)) = toLowerCase(trim(b))

NoDuplicateNames ==
    \A i, j \in 1..Len(cities) :
        i # j => ~SameName(cities[i].name, cities[j].name)

\* C28: after any sequence of addCity, removeCity and updateCityDisplayName
\* no two saved cities have names that are equal with case and surrounding
\* blanks set aside; an addCity that saves nothing, its name being saved
\* already, leaves the list and the selection as they are
C28_NoDuplicateCities ==
    /\ []NoDuplicateNames
    /\ [][(nextCityId' = nextCityId + 1 /\ Len(cities') = Len(cities)) =>
            /\ cities' = cities
            /\ selectedCityId' = selectedCityId]_vars

\* two cities are saved and a third addCity was turned down
C28_Witness ==
    /\ Len(cities) = 2
    /\ nextCityId = 4
    /\ cities[1].name = "Paris"
    /\ cities[2].name = "ROME"

\* ------------------------------------------------------------------------
\* The job form on the scheduler screen

\* the form is hidden before the step and shown after it
FormOpens == ~isFormVisible /\ isFormVisible'

\* C21: whenever the form becomes visible its fields are those of the job
\* it is opened for, or the defaults when it is opened for a new job,
\* whatever earlier openings have left in it
C21_FormOpensWithJobOrDefaults ==
    [][FormOpens =>
          formData' = useStateFormData(getInitialFormData(editingJob'))]_vars

\* the step is the onSuccess of the update that the switch of a job card
\* has issued
ToggleSucceeds ==
    \E n \in 1..Len(mutations) :
        /\ mutations[n].phase = "ok"
        /\ mutations[n].kind = "update"
        /\ DOMAIN mutations[n].data = {"enabled"}
        /\ mutations'[n].phase = "settling"

\* the step is the onError of a create or of an update
SubmitFails ==
    \E n \in 1..Len(mutations) :
        /\ mutations[n].phase = "err"
        /\ mutations[n].kind \in {"create", "update"}
        /\ mutations'[n].phase # "err"

\* C22: the success of a card's toggle leaves the open form and editingJob
\* as they are, and so does the failure of a create or an update
C22_FormClosedOnlyFromTheForm ==
    [][isFormVisible /\ (ToggleSucceeds \/ SubmitFails) =>
          UNCHANGED <<isFormVisible, editingJob>>]_vars

\* the name or the city of the form is empty or blank
Blank == trim(formData.name) = "" \/ trim(formData.city) = ""

\* the step issues a request from the open form
FormRequest ==
    isFormVisible /\ Len(mutations') = Len(mutations) + 1

\* the request that the step has issued
Issued == mutations'[Len(mutations')]

\* C26: Save with a blank name or city issues no request and leaves the
\* form open with its fields as they were; a request is issued from the
\* form only with both present, an update of the edited job when editingJob
\* is set and a create otherwise, carrying the form's fields, its cron too
C26_SaveChecksNameAndCity ==
    [][/\ formAlert = NoAlert /\ formAlert' # NoAlert =>
            /\ Blank
            /\ isFormVisible /\ isFormVisible'
            /\ UNCHANGED <<mutations, server, formVars, editingJob>>
       /\ FormRequest =>
            /\ ~Blank
            /\ formAlert' = NoAlert
            /\ Issued.phase = "sent"
            /\ Issued.data = JobRequest(formData)
            /\ Issued.data.cron = formData.cron
            /\ IF editingJob # Null
               THEN Issued.kind = "update" /\ Issued.id = editingJob.id
               ELSE Issued.kind = "create"
            /\ UNCHANGED <<formVars, isFormVisible, editingJob>>]_vars

\* a job has been created from the form with the form's cron, the form is
\* open again with a blank name, and Save has raised its alert
C26_Witness ==
    /\ Len(server) = Len(InitialServer) + 1
    /\ server[Len(server)].cron = formData.cron
    /\ server[Len(server)].name = "Trip"
    /\ isFormVisible
    /\ formData.name = " "
    /\ formAlert = [message |-> "Please enter a job name"]

====
